---- MODULE Spec2Model ----
(***************************************************************************)
(* Budget ledger (src/budget_ledger.py): class BudgetLedger, its JSON      *)
(* data file, and one or two ledger objects opened on that file.           *)
(*                                                                         *)
(* Python values are modelled as follows.                                  *)
(*   str that the code inspects character by character (description,      *)
(*       date) : a sequence of one-character strings;                      *)
(*   str that the code only compares or uses as a key (category,          *)
(*       subcategory, account) : a TLA+ string;                            *)
(*   dict  : a function whose DOMAIN is the set of keys present;          *)
(*   list  : a sequence;  int amounts : integers.                          *)
(***************************************************************************)
EXTENDS Integers, Sequences, FiniteSets, TLC

VARIABLES
    store,          \* the data file: [exists, data], data the JSON array in it
    transactions,   \* transactions[p]: self.transactions of ledger object p
    pc,             \* pc[p]: "new" before BudgetLedger(...) has run, then "ready"
    last            \* the last completed call: [proc, op, wrote, repeat]

vars == <<store, transactions, pc, last>>

(***************************************************************************)
(* Bounds of the model.                                                    *)
(***************************************************************************)
MaxLen == 2         \* add_transaction is called on a ledger holding fewer records

Proc == {1, 2}      \* ledger objects (processes) that may open the data file

(***************************************************************************)
(* Characters and strings.                                                 *)
(***************************************************************************)
UpperChars == <<"A","B","C","D","E","F","G","H","I","J","K","L","M",
                "N","O","P","Q","R","S","T","U","V","W","X","Y","Z">>
LowerChars == <<"a","b","c","d","e","f","g","h","i","j","k","l","m",
                "n","o","p","q","r","s","t","u","v","w","x","y","z">>

\* str.lower() on one character
LowerChar(c) ==
    IF \E i \in 1..Len(UpperChars) : UpperChars[i] = c
    THEN LowerChars[CHOOSE i \in 1..Len(UpperChars) : UpperChars[i] = c]
    ELSE c

\* str.lower()
Lower(s) == [i \in 1..Len(s) |-> LowerChar(s[i])]

\* the Python test `sub in s` on strings
Contains(sub, s) ==
    \E i \in 0..(Len(s) - Len(sub)) : SubSeq(s, i + 1, i + Len(sub)) = sub

DigitChars == <<"0","1","2","3","4","5","6","7","8","9">>

IsDigit(c) == \E i \in 1..10 : DigitChars[i] = c

DigitVal(c) == (CHOOSE i \in 1..10 : DigitChars[i] = c) - 1

\* "%0wd" % n, for 0 <= n < 10^w
RECURSIVE Pad(_, _)
Pad(n, w) ==
    IF w = 0 THEN <<>>
    ELSE Pad(n \div 10, w - 1) \o <<DigitChars[(n % 10) + 1]>>

AllDigits(s) == \A i \in 1..Len(s) : IsDigit(s[i])

\* int(s) of a string of decimal digits
RECURSIVE ParseInt(_)
ParseInt(s) ==
    IF s = <<>> THEN 0
    ELSE 10 * ParseInt(SubSeq(s, 1, Len(s) - 1)) + DigitVal(s[Len(s)])

(***************************************************************************)
(* datetime: isoformat() and fromisoformat().                              *)
(***************************************************************************)
DateTime(y, mo, d, h, mi, s, us) ==
    [year |-> y, month |-> mo, day |-> d, hour |-> h, minute |-> mi,
     second |-> s, microsecond |-> us]

\* datetime.isoformat(): YYYY-MM-DDTHH:MM:SS, then .ffffff unless microsecond is 0
IsoFormat(dt) ==
    Pad(dt.year, 4) \o <<"-">> \o Pad(dt.month, 2) \o <<"-">> \o Pad(dt.day, 2)
    \o <<"T">> \o Pad(dt.hour, 2) \o <<":">> \o Pad(dt.minute, 2)
    \o <<":">> \o Pad(dt.second, 2)
    \o (IF dt.microsecond = 0 THEN <<>> ELSE <<".">> \o Pad(dt.microsecond, 6))

IsLeap(y) == (y % 4 = 0) /\ ((y % 100 # 0) \/ (y % 400 = 0))

DaysInMonth(y, mo) ==
    IF mo = 2 THEN (IF IsLeap(y) THEN 29 ELSE 28)
    ELSE IF mo \in {4, 6, 9, 11} THEN 30 ELSE 31

\* the date part YYYY-MM-DD of an ISO string is well formed
DatePartOk(s) ==
    /\ Len(s) >= 10
    /\ AllDigits(SubSeq(s, 1, 4)) /\ s[5] = "-"
    /\ AllDigits(SubSeq(s, 6, 7)) /\ s[8] = "-"
    /\ AllDigits(SubSeq(s, 9, 10))
    /\ ParseInt(SubSeq(s, 1, 4)) >= 1
    /\ ParseInt(SubSeq(s, 6, 7)) \in 1..12
    /\ ParseInt(SubSeq(s, 9, 10))
         \in 1..DaysInMonth(ParseInt(SubSeq(s, 1, 4)), ParseInt(SubSeq(s, 6, 7)))

\* the rest of an ISO string after the date: empty, or a separator character and
\* HH:MM:SS, optionally followed by .ffffff
TimePartOk(s) ==
    \/ Len(s) = 10
    \/ /\ Len(s) \in {19, 26}
       /\ AllDigits(SubSeq(s, 12, 13)) /\ s[14] = ":"
       /\ AllDigits(SubSeq(s, 15, 16)) /\ s[17] = ":"
       /\ AllDigits(SubSeq(s, 18, 19))
       /\ ParseInt(SubSeq(s, 12, 13)) \in 0..23
       /\ ParseInt(SubSeq(s, 15, 16)) \in 0..59
       /\ ParseInt(SubSeq(s, 18, 19)) \in 0..59
       /\ (Len(s) = 26 => s[20] = "." /\ AllDigits(SubSeq(s, 21, 26)))

\* datetime.fromisoformat(s) returns a datetime (it raises ValueError otherwise)
IsoParses(s) == DatePartOk(s) /\ TimePartOk(s)

\* datetime.fromisoformat(s).year, for a string it accepts
IsoYear(s) == ParseInt(SubSeq(s, 1, 4))

\* datetime.fromisoformat(s).month, for a string it accepts
IsoMonth(s) == ParseInt(SubSeq(s, 6, 7))

\* datetime.fromisoformat(s), for a string it accepts
FromIsoFormat(s) ==
    DateTime(IsoYear(s), IsoMonth(s),
             ParseInt(SubSeq(s, 9, 10)),
             IF Len(s) = 10 THEN 0 ELSE ParseInt(SubSeq(s, 12, 13)),
             IF Len(s) = 10 THEN 0 ELSE ParseInt(SubSeq(s, 15, 16)),
             IF Len(s) = 10 THEN 0 ELSE ParseInt(SubSeq(s, 18, 19)),
             IF Len(s) = 26 THEN ParseInt(SubSeq(s, 21, 26)) ELSE 0)

(***************************************************************************)
(* Dictionaries, sums and JSON.                                            *)
(***************************************************************************)
\* sum(...) over a list of numbers
RECURSIVE SumSeq(_)
SumSeq(xs) == IF xs = <<>> THEN 0 ELSE xs[1] + SumSeq(Tail(xs))

\* [t['amount'] for t in ts if t['category'] == category]
AmountsOf(ts, category) ==
    LET sel == SelectSeq(ts, LAMBDA t : t.category = category)
    IN  [i \in 1..Len(sel) |-> sel[i].amount]

\* the order in which add_transaction inserts the keys of a record; migrate_data
\* inserts 'account' last as well, and json.dump writes keys in insertion order
KeyOrder == <<"date", "amount", "category", "subcategory", "description", "account">>

\* json.dump of one record: the members of the JSON object, in order
JsonDumpObject(t) ==
    LET keys == SelectSeq(KeyOrder, LAMBDA k : k \in DOMAIN t)
    IN  [i \in 1..Len(keys) |-> <<keys[i], t[keys[i]]>>]

\* json.dump(self.transactions, f): a JSON array of objects
JsonDump(ts) == [i \in 1..Len(ts) |-> JsonDumpObject(ts[i])]

\* json.load of one JSON object: a dict holding each member's key and value
JsonLoadObject(obj) ==
    [k \in {obj[i][1] : i \in 1..Len(obj)} |->
        obj[CHOOSE i \in 1..Len(obj) : obj[i][1] = k][2]]

\* json.load(f): a list of dicts
JsonLoad(arr) == [i \in 1..Len(arr) |-> JsonLoadObject(arr[i])]

(***************************************************************************)
(* The values the environment supplies.                                    *)
(***************************************************************************)
\* values datetime.datetime.now() returns when a transaction is recorded
Clock == { DateTime(2023, 12, 31, 23, 59, 59, 999999),
           DateTime(2024, 1, 1, 0, 0, 0, 0) }

Amounts == {50}

\* the four categories of self.categories, and one the ledger does not know
Categories == {"income", "expenses", "savings", "investments", "gift"}

Subcategories == {"other"}

\* accounts passed to add_transaction: the default and one that the description
\* rule never infers
Accounts == {"bank", "crypto"}

\* descriptions passed to add_transaction
Descriptions == { <<"C","a","s","h">> }

\* (year, month) arguments of get_monthly_summary
Queries == { <<2023, 12>>, <<2024, 1>>, <<2024, 12>>, <<2023, 1>> }

\* a record as the version of the tool without accounts wrote it
LegacyRecord(dt, amount, category, description) ==
    [date |-> IsoFormat(dt), amount |-> amount, category |-> category,
     subcategory |-> "other", description |-> description]

\* a record as add_transaction builds it
Record(dt, amount, category, subcategory, description, account) ==
    [date |-> IsoFormat(dt), amount |-> amount, category |-> category,
     subcategory |-> subcategory, description |-> description,
     account |-> account]

\* records found in a data file written by earlier runs: without an account
\* (descriptions "Cash", "bank cash", "Invest at BANK", "INVESTING", "", and one
\* record with no description at all), and with one; amounts are accepted as
\* they come, a negative one included
StoredRecords ==
    { LegacyRecord(DateTime(2023, 12, 31, 23, 59, 59, 999999), 100, "income",
                   <<"C","a","s","h">>),
      LegacyRecord(DateTime(2024, 1, 1, 0, 0, 0, 0), 50, "expenses",
                   <<"b","a","n","k"," ","c","a","s","h">>),
      LegacyRecord(DateTime(2024, 12, 5, 8, 30, 0, 0), 50, "investments",
                   <<"I","n","v","e","s","t"," ","a","t"," ","B","A","N","K">>),
      LegacyRecord(DateTime(2024, 1, 1, 0, 0, 0, 0), -20, "income",
                   <<"I","N","V","E","S","T","I","N","G">>),
      LegacyRecord(DateTime(2023, 12, 31, 23, 59, 59, 999999), 30, "savings", <<>>),
      [date |-> IsoFormat(DateTime(2024, 12, 5, 8, 30, 0, 0)), amount |-> 10,
       category |-> "expenses", subcategory |-> "food"],
      Record(DateTime(2024, 1, 1, 0, 0, 0, 0), 50, "investments", "stocks",
             <<"c","a","s","h">>, "other"),
      Record(DateTime(2023, 12, 31, 23, 59, 59, 999999), 40, "expenses", "food",
             <<>>, "invested") }

\* records of a data file that this tool did not write: the date is no ISO
\* timestamp ("2024-13-01T00:00:00", "yesterday")
MalformedRecords ==
    { [date |-> <<"2","0","2","4","-","1","3","-","0","1","T","0","0",":",
                  "0","0",":","0","0">>,
       amount |-> 5, category |-> "income", subcategory |-> "other",
       description |-> <<>>, account |-> "bank"],
      [date |-> <<"y","e","s","t","e","r","d","a","y">>,
       amount |-> 5, category |-> "expenses", subcategory |-> "other",
       description |-> <<>>] }

MaxStore == 2       \* records in the data file before the first ledger opens it

\* lists of at most n records from S
RECURSIVE ListsOf(_, _)
ListsOf(S, n) ==
    IF n = 0 THEN { <<>> }
    ELSE LET shorter == ListsOf(S, n - 1)
         IN  shorter \cup { Append(l, r) : l \in shorter, r \in S }

NoFile == [exists |-> FALSE, data |-> <<>>]

File(ts) == [exists |-> TRUE, data |-> JsonDump(ts)]

(***************************************************************************)
(* BudgetLedger: the reports.                                              *)
(***************************************************************************)
\* get_balance with savings counted as money spent
GetBalance_SavingsSpent(ts) ==
    SumSeq(AmountsOf(ts, "income")) - SumSeq(AmountsOf(ts, "expenses"))
    - SumSeq(AmountsOf(ts, "savings"))

\* get_balance
GetBalance(ts) ==
    LET income   == SumSeq(AmountsOf(ts, "income"))
        expenses == SumSeq(AmountsOf(ts, "expenses"))
    IN  income - expenses

\* transaction.get('description', '').lower()
DescLower(t) ==
    Lower(IF "description" \in DOMAIN t THEN t.description ELSE <<>>)

\* get_account_breakdown: the account of one transaction
BreakdownAccount(t) ==
    IF "account" \in DOMAIN t THEN t.account
    ELSE LET desc_lower == DescLower(t)
         IN  IF Contains(<<"c","a","s","h">>, desc_lower) THEN "cash"
             ELSE IF Contains(<<"b","a","n","k">>, desc_lower) THEN "bank"
             ELSE IF Contains(<<"i","n","v","e","s","t">>, desc_lower) THEN "invested"
             ELSE "bank"

\* breakdown[key] += amount on a defaultdict(float)
DictAdd(d, key, amount) ==
    IF key \in DOMAIN d THEN [d EXCEPT ![key] = @ + amount]
    ELSE [k \in DOMAIN d \cup {key} |-> IF k = key THEN amount ELSE d[k]]

\* the loop body with an investment taken out of the transaction's own account
BreakdownStep_FromOwnAccount(breakdown, t) ==
    LET account == BreakdownAccount(t)
    IN  IF t.category = "income" THEN DictAdd(breakdown, account, t.amount)
        ELSE IF t.category = "expenses" THEN DictAdd(breakdown, account, 0 - t.amount)
        ELSE IF t.category = "investments"
             THEN DictAdd(DictAdd(breakdown, "invested", t.amount), account, 0 - t.amount)
        ELSE breakdown

\* the loop body with savings taken out of the transaction's account
BreakdownStep_SavingsDebit(breakdown, t) ==
    LET account == BreakdownAccount(t)
    IN  IF t.category = "income" THEN DictAdd(breakdown, account, t.amount)
        ELSE IF t.category \in {"expenses", "savings"}
             THEN DictAdd(breakdown, account, 0 - t.amount)
        ELSE IF t.category = "investments"
             THEN DictAdd(DictAdd(breakdown, "invested", t.amount), "bank", 0 - t.amount)
        ELSE breakdown

\* get_account_breakdown: the body of the loop, for one transaction
BreakdownStep(breakdown, t) ==
    LET account == BreakdownAccount(t)
    IN  IF t.category = "income" THEN DictAdd(breakdown, account, t.amount)
        ELSE IF t.category = "expenses" THEN DictAdd(breakdown, account, 0 - t.amount)
        ELSE IF t.category = "investments"
             THEN DictAdd(DictAdd(breakdown, "invested", t.amount), "bank", 0 - t.amount)
        ELSE breakdown

\* get_account_breakdown: the loop over self.transactions
RECURSIVE BreakdownLoop(_, _)
BreakdownLoop(breakdown, ts) ==
    IF ts = <<>> THEN breakdown
    ELSE BreakdownLoop(BreakdownStep(breakdown, Head(ts)), Tail(ts))

\* sum(v for k, v in breakdown.items() if k != 'net')
RECURSIVE SumOver(_, _)
SumOver(d, keys) ==
    IF keys = {} THEN 0
    ELSE LET k == CHOOSE x \in keys : TRUE
         IN  d[k] + SumOver(d, keys \ {k})

EmptyDict == [k \in {} |-> 0]

\* get_account_breakdown
GetAccountBreakdown(ts) ==
    LET breakdown == BreakdownLoop(EmptyDict, ts)
        net       == SumOver(breakdown, DOMAIN breakdown \ {"net"})
    IN  [k \in DOMAIN breakdown \cup {"net"} |-> IF k = "net" THEN net ELSE breakdown[k]]

\* the filter with the year left out
InMonth_AnyYear(t, year, month) == IsoMonth(t.date) = month

\* get_monthly_summary: the filter on the date of one transaction
InMonth(t, year, month) ==
    /\ IsoYear(t.date) = year
    /\ IsoMonth(t.date) = month

\* get_monthly_summary; fromisoformat raises ValueError on a date it cannot parse
GetMonthlySummary(ts, year, month) ==
    IF \E i \in 1..Len(ts) : ~IsoParses(ts[i].date)
    THEN [error |-> "ValueError"]
    ELSE LET monthly_transactions == SelectSeq(ts, LAMBDA t : InMonth(t, year, month))
             income      == SumSeq(AmountsOf(monthly_transactions, "income"))
             expenses    == SumSeq(AmountsOf(monthly_transactions, "expenses"))
             savings     == SumSeq(AmountsOf(monthly_transactions, "savings"))
             investments == SumSeq(AmountsOf(monthly_transactions, "investments"))
         IN  [income |-> income, expenses |-> expenses, savings |-> savings,
              investments |-> investments, net |-> income - expenses,
              \* savings / income * 100 as the fraction <<numerator, denominator>>
              savings_rate |-> IF income > 0 THEN <<savings * 100, income>>
                               ELSE <<0, 1>>]

(***************************************************************************)
(* BudgetLedger: the data file and the migration.                          *)
(***************************************************************************)
\* save_data writing the newest record only
SaveData_LastOnly(ts) ==
    [exists |-> TRUE, data |-> JsonDump(SubSeq(ts, Len(ts), Len(ts)))]

\* save_data: the file after open(.., 'w') and json.dump
SaveData(ts) == [exists |-> TRUE, data |-> JsonDump(ts)]

\* load_data: self.transactions after it, ts being its value before
LoadData(file, ts) == IF file.exists THEN JsonLoad(file.data) ELSE ts

\* the migration rule with 'bank' tested before 'cash'
MigrateAccount_BankFirst(t) ==
    LET desc_lower == DescLower(t)
    IN  IF Contains(<<"b","a","n","k">>, desc_lower) THEN "bank"
        ELSE IF Contains(<<"c","a","s","h">>, desc_lower) THEN "cash"
        ELSE IF Contains(<<"i","n","v","e","s","t">>, desc_lower) THEN "invested"
        ELSE "bank"

\* migrate_data: the account written into a record that has none
MigrateAccount(t) ==
    LET desc_lower == DescLower(t)
    IN  IF Contains(<<"c","a","s","h">>, desc_lower) THEN "cash"
        ELSE IF Contains(<<"b","a","n","k">>, desc_lower) THEN "bank"
        ELSE IF Contains(<<"i","n","v","e","s","t">>, desc_lower) THEN "invested"
        ELSE "bank"

\* the loop body without the test for an existing account
MigrateRecord_Recompute(t) ==
    [k \in DOMAIN t \cup {"account"} |->
        IF k = "account" THEN MigrateAccount(t) ELSE t[k]]

\* migrate_data: the body of the loop, for one transaction
MigrateRecord(t) ==
    IF "account" \notin DOMAIN t
    THEN [k \in DOMAIN t \cup {"account"} |->
            IF k = "account" THEN MigrateAccount(t) ELSE t[k]]
    ELSE t

\* migrate_data: self.transactions after the loop
MigrateLoop(ts) == [i \in 1..Len(ts) |-> MigrateRecord(ts[i])]

\* the flag set whether or not a record changed
Updated_Always(ts) == TRUE

\* the flag never set
Updated_Never(ts) == FALSE

\* migrate_data: the flag `updated` after the loop
Updated(ts) == \E i \in 1..Len(ts) : "account" \notin DOMAIN ts[i]

(***************************************************************************)
(* The operations of a ledger object p.                                    *)
(***************************************************************************)
\* the record of a completed call: the object, the method, whether it wrote the
\* data file, and whether the call before it was migrate_data on the same object
Call(p, op, wrote) ==
    [proc |-> p, op |-> op, wrote |-> wrote,
     repeat |-> (op = "migrate_data" /\ last.op = "migrate_data" /\ last.proc = p)]

\* BudgetLedger(data_file): self.transactions = [], then load_data()
Construct(p) ==
    /\ pc[p] = "new"
    /\ transactions' = [transactions EXCEPT ![p] = LoadData(store, <<>>)]
    /\ pc' = [pc EXCEPT ![p] = "ready"]
    /\ last' = Call(p, "__init__", FALSE)
    /\ UNCHANGED store

\* add_transaction(amount, category, subcategory, description, account), now being
\* the value of datetime.datetime.now()
AddTransaction(p, now, amount, category, subcategory, description, account) ==
    /\ pc[p] = "ready"
    /\ Len(transactions[p]) < MaxLen
    /\ LET transaction ==
               [date |-> IsoFormat(now), amount |-> amount, category |-> category,
                subcategory |-> subcategory, description |-> description,
                account |-> account]
       IN  /\ transactions' = [transactions EXCEPT ![p] = Append(@, transaction)]
           /\ store' = SaveData(transactions'[p])
    /\ last' = Call(p, "add_transaction", TRUE)
    /\ UNCHANGED pc

\* get_balance(): reads self.transactions and changes nothing
Balance(p) ==
    /\ pc[p] = "ready"
    /\ last' = Call(p, "get_balance", FALSE)
    /\ UNCHANGED <<store, transactions, pc>>

\* get_account_breakdown(): reads self.transactions and changes nothing
AccountBreakdown(p) ==
    /\ pc[p] = "ready"
    /\ last' = Call(p, "get_account_breakdown", FALSE)
    /\ UNCHANGED <<store, transactions, pc>>

\* get_monthly_summary(year, month): reads self.transactions and changes nothing
MonthlySummary(p) ==
    /\ pc[p] = "ready"
    /\ last' = Call(p, "get_monthly_summary", FALSE)
    /\ UNCHANGED <<store, transactions, pc>>

\* migrate_data()
MigrateData(p) ==
    /\ pc[p] = "ready"
    /\ transactions' = [transactions EXCEPT ![p] = MigrateLoop(@)]
    /\ store' = IF Updated(transactions[p]) THEN SaveData(transactions'[p]) ELSE store
    /\ last' = Call(p, "migrate_data", Updated(transactions[p]))
    /\ UNCHANGED pc

(***************************************************************************)
(* Specifications.                                                         *)
(***************************************************************************)
InitLedgers ==
    /\ transactions = [p \in Proc |-> <<>>]
    /\ pc = [p \in Proc |-> "new"]
    /\ last = [proc |-> 0, op |-> "none", wrote |-> FALSE, repeat |-> FALSE]

\* the data file is missing, or holds what earlier runs of the tool wrote
Init ==
    /\ store \in {NoFile} \cup { File(ts) : ts \in ListsOf(StoredRecords, MaxStore) }
    /\ InitLedgers

Step(p) ==
    \/ Construct(p)
    \/ \E now \in Clock, amount \in Amounts, category \in Categories,
          subcategory \in Subcategories, description \in Descriptions,
          account \in Accounts :
          AddTransaction(p, now, amount, category, subcategory, description, account)
    \/ Balance(p)
    \/ AccountBreakdown(p)
    \/ MonthlySummary(p)
    \/ MigrateData(p)

\* one ledger process
Next == Step(1)

Spec == Init /\ [][Next]_vars

\* records in the data file when two ledgers share it
SharedRecords ==
    { LegacyRecord(DateTime(2024, 1, 1, 0, 0, 0, 0), 50, "expenses",
                   <<"b","a","n","k"," ","c","a","s","h">>),
      Record(DateTime(2023, 12, 31, 23, 59, 59, 999999), 40, "expenses", "food",
             <<>>, "invested") }

InitTwo ==
    /\ store \in {NoFile} \cup { File(ts) : ts \in ListsOf(SharedRecords, MaxStore) }
    /\ InitLedgers

\* two ledger processes on one data file; each call runs to completion, the calls
\* of the two interleave in any order
StepTwo(p) ==
    \/ Construct(p)
    \/ \E category \in {"income", "expenses"} :
          AddTransaction(p, DateTime(2024, 1, 1, 0, 0, 0, 0), 50, category, "other",
                         <<>>, "crypto")
    \/ MigrateData(p)

NextTwo == \E p \in Proc : StepTwo(p)

SpecTwo == InitTwo /\ [][NextTwo]_vars

\* the data file may also hold records this tool did not write
InitLoad ==
    /\ store \in {NoFile} \cup
          { File(ts) : ts \in ListsOf(StoredRecords \cup MalformedRecords, MaxStore) }
    /\ InitLedgers

SpecLoad == InitLoad /\ [][Next]_vars

(***************************************************************************)
(* Properties.                                                             *)
(***************************************************************************)
\* what one transaction adds to income minus expenses
SignedAmount(t) ==
    IF t.category = "income" THEN t.amount
    ELSE IF t.category = "expenses" THEN 0 - t.amount
    ELSE 0

\* a list without its i-th element
RemoveAt(ts, i) == SubSeq(ts, 1, i - 1) \o SubSeq(ts, i + 1, Len(ts))

\* the value of a bucket, 0 for a bucket the mapping does not have
ValueAt(d, k) == IF k \in DOMAIN d THEN d[k] ELSE 0

\* the text of a date starts with YYYY-MM for this year and month
DatedIn(t, year, month) ==
    SubSeq(t.date, 1, 7) = Pad(year, 4) \o <<"-">> \o Pad(month, 2)

\* the sum of the amounts of the transactions of a category dated in a month
MonthTotal(ts, category, year, month) ==
    LET sel == SelectSeq(ts, LAMBDA t : t.category = category /\ DatedIn(t, year, month))
    IN  SumSeq([i \in 1..Len(sel) |-> sel[i].amount])

\* C1: get_balance() is the sum of the income amounts minus the sum of the
\* expenses amounts; a transaction of any other category (savings, investments,
\* an unknown one) changes the result by nothing.
C1_BalanceIsIncomeMinusExpenses ==
    last.op = "get_balance" =>
        LET ts == transactions[last.proc]
        IN  /\ GetBalance(ts) = SumSeq([i \in 1..Len(ts) |-> SignedAmount(ts[i])])
            /\ \A i \in 1..Len(ts) :
                   ts[i].category \notin {"income", "expenses"}
                       => GetBalance(RemoveAt(ts, i)) = GetBalance(ts)

\* get_balance() ran on a ledger that holds income and a transaction of a
\* category that is neither income nor expenses
C1_Witness ==
    /\ last.op = "get_balance"
    /\ \E i, j \in 1..Len(transactions[last.proc]) :
           /\ transactions[last.proc][i].category = "income"
           /\ transactions[last.proc][j].category \in {"savings", "investments", "gift"}

\* C2: each of the income, expenses, savings and investments figures of
\* get_monthly_summary(year, month) is the sum of the amounts of that category
\* over exactly the transactions dated in that year and month.
C2_MonthlySummaryExact ==
    last.op = "get_monthly_summary" =>
        LET ts == transactions[last.proc]
        IN  \A q \in Queries :
                LET summary == GetMonthlySummary(ts, q[1], q[2])
                IN  \A c \in {"income", "expenses", "savings", "investments"} :
                        summary[c] = MonthTotal(ts, c, q[1], q[2])

\* get_monthly_summary ran on a ledger with two transactions of one category in
\* the same month of different years
C2_Witness ==
    /\ last.op = "get_monthly_summary"
    /\ \E i, j \in 1..Len(transactions[last.proc]) :
           LET ts == transactions[last.proc]
           IN  /\ ts[i].category = ts[j].category
               /\ ts[i].category \in {"income", "expenses", "savings", "investments"}
               /\ DatedIn(ts[i], 2023, 12)
               /\ DatedIn(ts[j], 2024, 12)

\* C3: in get_account_breakdown() a transaction of category investments with
\* amount a adds a to 'invested' and takes a from 'bank' whatever its own account
\* is, and adds nothing to 'net'; one investment of 50 alone gives exactly
\* {invested: 50, bank: -50, net: 0}.
C3_InvestmentsMoveBankToInvested ==
    last.op = "get_account_breakdown" =>
        LET ts == transactions[last.proc]
        IN  /\ \A i \in 1..Len(ts) :
                   ts[i].category = "investments" =>
                       LET with    == GetAccountBreakdown(ts)
                           without == GetAccountBreakdown(RemoveAt(ts, i))
                       IN  \A k \in DOMAIN with \cup DOMAIN without :
                               ValueAt(with, k) - ValueAt(without, k) =
                                   IF k = "invested" THEN ts[i].amount
                                   ELSE IF k = "bank" THEN 0 - ts[i].amount
                                   ELSE 0
            /\ (Len(ts) = 1 /\ ts[1].category = "investments" /\ ts[1].amount = 50)
                   => GetAccountBreakdown(ts) = [invested |-> 50, bank |-> -50, net |-> 0]

\* get_account_breakdown ran on a ledger holding one investment of 50 whose own
\* account is not bank
C3_Witness ==
    /\ last.op = "get_account_breakdown"
    /\ Len(transactions[last.proc]) = 1
    /\ transactions[last.proc][1].category = "investments"
    /\ transactions[last.proc][1].amount = 50
    /\ "account" \in DOMAIN transactions[last.proc][1]
    /\ transactions[last.proc][1].account # "bank"

\* C4: migrate_data() run a second time changes no record, does not save, and
\* leaves the data file as the first run left it.
C4_MigrateTwiceChangesNothing ==
    [][ (last.op = "migrate_data" /\ last'.op = "migrate_data" /\ last'.proc = last.proc)
            => /\ transactions' = transactions
               /\ store' = store
               /\ ~last'.wrote ]_vars

\* migrate_data ran twice in a row on a ledger holding a record that a
\* migration gave the account cash
C4_Witness ==
    /\ last.op = "migrate_data"
    /\ last.repeat
    /\ \E i \in 1..Len(transactions[last.proc]) :
           /\ transactions[last.proc][i].account = "cash"
           /\ Contains(<<"c","a","s","h">>, DescLower(transactions[last.proc][i]))

\* one record after a step: the same, or (by migrate_data only) the same with an
\* account added where there was none
SameOrMigrated(old, new, op) ==
    \/ new = old
    \/ /\ op = "migrate_data"
       /\ "account" \notin DOMAIN old
       /\ DOMAIN new = DOMAIN old \cup {"account"}
       /\ \A k \in DOMAIN old : new[k] = old[k]

\* C5: the in-memory sequence of a ledger is append-only: no call removes or
\* reorders a record, add_transaction adds exactly one at the end, the only change
\* to an existing record is migrate_data adding an account to a record without
\* one, and an account once present stays as it is.
C5_AppendOnly ==
    [][ \A p \in Proc :
          pc[p] = "ready" =>
            LET old == transactions[p]
                new == transactions'[p]
            IN  /\ Len(new) \in {Len(old), Len(old) + 1}
                /\ \A i \in 1..Len(old) : SameOrMigrated(old[i], new[i], last'.op)
                /\ Len(new) = Len(old) + 1 =>
                       /\ last'.op = "add_transaction"
                       /\ SubSeq(new, 1, Len(old)) = old
                /\ (last'.op = "add_transaction" /\ last'.proc = p /\ new # old)
                       => Len(new) = Len(old) + 1
                /\ \A i \in 1..Len(old) :
                       "account" \in DOMAIN old[i] =>
                           /\ "account" \in DOMAIN new[i]
                           /\ new[i].account = old[i].account ]_vars

\* add_transaction ran on a ledger whose first record had been migrated
C5_Witness ==
    /\ last.op = "add_transaction"
    /\ Len(transactions[last.proc]) = 2
    /\ "account" \in DOMAIN transactions[last.proc][1]
    /\ transactions[last.proc][1].account = "cash"
    /\ transactions[last.proc][2].account = "crypto"

\* C6: with one ledger process, between calls the data file holds exactly the
\* in-memory sequence, a missing file counting as the empty sequence.
C6_StoreEqualsMemory ==
    \A p \in Proc :
        pc[p] = "ready" =>
            /\ JsonLoad(store.data) = transactions[p]
            /\ ~store.exists => transactions[p] = <<>>

\* migrate_data changed a record of a ledger that also holds an added record,
\* and saved
C6_Witness ==
    /\ last.op = "migrate_data"
    /\ last.wrote
    /\ store.exists
    /\ Len(transactions[last.proc]) = 2
    /\ transactions[last.proc][2].account = "crypto"

\* C7: a record with a malformed timestamp never ends up in the in-memory
\* sequence of a ledger that started up.
C7_LoadRejectsMalformed ==
    \A p \in Proc :
        pc[p] = "ready" =>
            \A i \in 1..Len(transactions[p]) : IsoParses(transactions[p][i].date)

\* both ledgers loaded the same records and each then added one of its own; p
\* saved last
BothAdded(p, q) ==
    /\ p # q
    /\ pc[p] = "ready" /\ pc[q] = "ready"
    /\ last.op = "add_transaction" /\ last.proc = p
    /\ Len(transactions[p]) = Len(transactions[q])
    /\ Len(transactions[p]) >= 1
    /\ SubSeq(transactions[p], 1, Len(transactions[p]) - 1)
         = SubSeq(transactions[q], 1, Len(transactions[q]) - 1)
    /\ transactions[p][Len(transactions[p])] # transactions[q][Len(transactions[q])]

\* C8: with two ledgers on one data file, the file after a save is the whole
\* in-memory sequence of the ledger that saved last; when both loaded the same
\* records and each added one, the file holds the last saver's sequence and not
\* the other's, so the other's transaction is not in it.
C8_LastWriterWins ==
    /\ last.wrote => store = SaveData(transactions[last.proc])
    /\ \A p, q \in Proc :
           BothAdded(p, q) =>
               /\ JsonLoad(store.data) = transactions[p]
               /\ JsonLoad(store.data) # transactions[q]
               /\ Len(store.data) = Len(transactions[q])

\* the lost update: both ledgers added a transaction, and the file holds only
\* that of the one that saved last
C8_Witness ==
    \E p, q \in Proc :
        /\ BothAdded(p, q)
        /\ \A i \in 1..Len(store.data) :
               JsonLoadObject(store.data[i]) # transactions[q][Len(transactions[q])]

\* C9: migrate_data() leaves get_account_breakdown() as it was.
C9_MigrationKeepsBreakdown ==
    [][ \A p \in Proc :
          (last'.op = "migrate_data" /\ last'.proc = p)
              => GetAccountBreakdown(transactions'[p]) = GetAccountBreakdown(transactions[p])
      ]_vars

\* migrate_data changed a record of a ledger that holds a record migrated to
\* cash, counted in the breakdown, next to a record added with an account
C9_Witness ==
    /\ last.op = "migrate_data"
    /\ last.wrote
    /\ \E i, j \in 1..Len(transactions[last.proc]) :
           /\ transactions[last.proc][i].account = "cash"
           /\ transactions[last.proc][i].category \in {"income", "expenses"}
           /\ transactions[last.proc][j].account = "crypto"

\* C10: the 'net' entry of get_account_breakdown() equals get_balance().
C10_NetEqualsBalance ==
    last.op = "get_account_breakdown" =>
        GetAccountBreakdown(transactions[last.proc])["net"]
            = GetBalance(transactions[last.proc])

\* get_account_breakdown ran on a ledger holding an investment and an income
C10_Witness ==
    /\ last.op = "get_account_breakdown"
    /\ \E i, j \in 1..Len(transactions[last.proc]) :
           /\ transactions[last.proc][i].category = "investments"
           /\ transactions[last.proc][j].category = "income"
    /\ GetAccountBreakdown(transactions[last.proc])["net"] # 0

====
